---------------------------- MODULE Spec2Model ----------------------------
(***************************************************************************)
(* The Polymarket logger (src/polymarket_logger.py) and the record store  *)
(* it reads its market configurations from (src/main.py, db.json).        *)
(*                                                                         *)
(* Prices are integers in hundredths (0.97 is 97), raw random draws and   *)
(* difference_from_1 are integers in thousandths.  A sheet row is the     *)
(* 11-tuple the code builds; the timestamp cell is a fixed token, the     *)
(* clock is not modelled.                                                 *)
(***************************************************************************)
EXTENDS Integers, Sequences, FiniteSets, Bags, TLC

(* ------------------------------ bounds -------------------------------- *)

\* largest num_logs a run is started with (main passes 60)
MaxLogs == 2
\* number of times the program is started
MaxRuns == 2
\* cap of the in-memory cycle counter
MaxCycles == 2
\* longest db.json collection
MaxDb == 2
\* batches built on their own: largest num_logs, longest market list and
\* largest row count of the sheet
MaxTotal == 4
MaxMarkets == 3
MaxExisting == 2

\* the logger starts no cycle that would take the sheet beyond MaxRows rows
MaxRows == MaxLogs + 1

(* --------------------------- program constants ------------------------ *)

DEFAULT_T1 == 100
DEFAULT_T2 == 95
DEFAULT_T3 == 90
NO_MIN == 10
NO_MAX == 990
COL_T1 == 8
COL_T3 == 10

TIMESTAMP == "YYYY-MM-DD HH:MM:SS UTC"

header ==
    << "log_id", "market_id", "market_label", "yes_price", "no_price",
       "sum_price", "difference_from_1", "below_threshold1",
       "below_threshold2", "below_threshold3", "timestamp_UTC" >>

DummyMarket ==
    [ marketId |-> "MKT001", marketLabel |-> "Will BTC close above $100k?",
      threshold1 |-> 100, threshold2 |-> 95, threshold3 |-> 90 ]

LIGHT_RED == "light_red"
LIGHT_GREEN == "light_green"

(* ------------------------------ inputs -------------------------------- *)

\* the records the HTTP interface is called with (pydantic Record)
Records ==
    { [ marketId |-> "MKT001", marketLabel |-> "btc",
        threshold1 |-> 100, threshold2 |-> 95, threshold3 |-> 90 ],
      [ marketId |-> "MKT002", marketLabel |-> "eth",
        threshold1 |-> 97, threshold2 |-> 100, threshold3 |-> 98 ] }

\* a db.json entry written by hand, without thresholds
Unthresholded == [ marketId |-> "MKT003", marketLabel |-> "sol" ]

MarketIds == { r.marketId : r \in Records }

\* random.uniform(0.05, 0.95) and random.uniform(-0.03, 0.03), in thousandths
PriceDraws == { << 504, -28 >> }
WidePriceDraws == { << 504, -28 >>, << 504, 24 >> }
\* a grid of draws: both ends of each range, and draws whose sum_price meets
\* a threshold of Records exactly (0.97, 0.98, 1.0)
GridDraws ==
    { << yes, noise >> : yes \in { 50, 250, 376, 504, 730, 950 },
                         noise \in { -30, -28, -20, 0, 4, 24, 30 } }

VARIABLES
    db,             \* db.json: the sequence of market records
    ws_exists,      \* the spreadsheet has a worksheet named "logs"
    sheet,          \* the worksheet's rows of values, row 1 first
    marks,          \* cell background set by apply_flag_color, by <<letter, row>>
    pc,             \* position of the logger process
    run,            \* number of the logger process, 1 for the first start
    cycle,          \* main's cycle counter
    num_logs,       \* the num_logs main calls simulate_logs with
    markets,        \* simulate_logs: markets
    existing_rows,  \* simulate_logs: existing_rows
    built,          \* rows in the order the loops appended them, with market_idx
    rows_to_add,    \* simulate_logs: rows_to_add (after the shuffle)
    idx,            \* annotation loop: idx (0-based)
    col,            \* annotation loop: next flag column of row idx
    calls,          \* external calls of the running cycle, in order
    completed,      \* cycles of this process whose simulate_logs returned
    printed,        \* the cycle count printed on stop, -1 while none
    stop_reason,    \* "", "interrupt" or "error"
    appends,        \* append_rows calls that have returned, all processes
    pc2,            \* position of a second logger process, "off" while none
    cycle2,         \* the second process: main's cycle counter
    markets2,       \* the second process: markets
    existing_rows2, \* the second process: existing_rows
    rows_to_add2,   \* the second process: rows_to_add
    idx2,           \* the second process: idx of the annotation loop
    col2            \* the second process: next flag column of row idx2

vars == << db, ws_exists, sheet, marks, pc, run, cycle, num_logs, markets,
           existing_rows, built, rows_to_add, idx, col, calls, completed,
           printed, stop_reason, appends, pc2, cycle2, markets2,
           existing_rows2, rows_to_add2, idx2, col2 >>

second == << pc2, cycle2, markets2, existing_rows2, rows_to_add2, idx2, col2 >>

locals == << markets, existing_rows, built, rows_to_add, idx, col >>

(* --------------------------- pure functions --------------------------- *)

Min(a, b) == IF a < b THEN a ELSE b
Max(a, b) == IF a > b THEN a ELSE b

\* round(x, 2) of a value given in thousandths, result in hundredths
\* (round half to even)
Round2(x) ==
    LET q == x \div 10
        r == x % 10
    IN  IF r < 5 THEN q
        ELSE IF r > 5 THEN q + 1
        ELSE IF q % 2 = 0 THEN q ELSE q + 1

\* generate_realistic_prices for one pair of draws <<yes, noise>>
generate_realistic_prices(draw) ==
    LET yes_price == draw[1]
        noise == draw[2]
        no_price == Max(NO_MIN, Min(NO_MAX, 1000 - yes_price + noise))
    IN  [ yes |-> Round2(yes_price), no |-> Round2(no_price) ]

\* market.get(name, default)
market_get(market, name, default) ==
    IF name \in DOMAIN market THEN market[name] ELSE default

YesNo(b) == IF b THEN "YES" ELSE "NO"

\* fault of make_row: the flags are YES at equality too
make_row_le(log_id, market, draw) ==
    LET prices == generate_realistic_prices(draw)
        sum_price == prices.yes + prices.no
        difference == (100 - sum_price) * 10
        threshold1 == market_get(market, "threshold1", DEFAULT_T1)
        threshold2 == market_get(market, "threshold2", DEFAULT_T2)
        threshold3 == market_get(market, "threshold3", DEFAULT_T3)
    IN  << log_id, market.marketId, market.marketLabel, prices.yes,
           prices.no, sum_price, difference,
           YesNo(sum_price <= threshold1), YesNo(sum_price <= threshold2),
           YesNo(sum_price <= threshold3), TIMESTAMP >>

\* the row simulate_logs builds for one sample (lines 173-203)
make_row(log_id, market, draw) ==
    LET prices == generate_realistic_prices(draw)
        sum_price == prices.yes + prices.no
        difference == (100 - sum_price) * 10
        threshold1 == market_get(market, "threshold1", DEFAULT_T1)
        threshold2 == market_get(market, "threshold2", DEFAULT_T2)
        threshold3 == market_get(market, "threshold3", DEFAULT_T3)
    IN  << log_id, market.marketId, market.marketLabel, prices.yes,
           prices.no, sum_price, difference,
           YesNo(sum_price < threshold1), YesNo(sum_price < threshold2),
           YesNo(sum_price < threshold3), TIMESTAMP >>

\* faults of last_log_id: the header counted twice, the header not counted
last_log_id_twice(rows) == IF rows > 2 THEN rows - 2 ELSE 0
last_log_id_nohdr(rows) == rows
\* fault of last_log_id: the count starts again in every cycle
last_log_id_fresh(rows) == 0

\* log_id = existing_rows - 1 if existing_rows > 1 else 0
last_log_id(rows) == IF rows > 1 THEN rows - 1 ELSE 0

\* faults of market_logs: the remainder given to the last markets, the whole
\* remainder given to the first market
market_logs_last(n_markets, total, market_idx) ==
    total \div n_markets
    + (IF market_idx >= n_markets - (total % n_markets) THEN 1 ELSE 0)
market_logs_first(n_markets, total, market_idx) ==
    total \div n_markets + (IF market_idx = 0 THEN total % n_markets ELSE 0)

\* market_logs of the market at market_idx (0-based)
market_logs(n_markets, total, market_idx) ==
    LET logs_per_market == total \div n_markets
        remainder == total % n_markets
    IN  logs_per_market + (IF market_idx < remainder THEN 1 ELSE 0)

\* fault of build_rows: the log_ids of a market handed out last sample first
RECURSIVE build_rows_desc(_, _, _, _, _)
build_rows_desc(mkts, total, market_idx, log_id, draws) ==
    IF market_idx >= Len(mkts) THEN << >>
    ELSE LET n == market_logs(Len(mkts), total, market_idx)
             mine == [ i \in 1..n |->
                         [ market_idx |-> market_idx,
                           row |-> make_row(log_id + n + 1 - i,
                                            mkts[market_idx + 1], draws[i]) ] ]
         IN  mine \o build_rows_desc(mkts, total, market_idx + 1, log_id + n,
                                     SubSeq(draws, n + 1, Len(draws)))

\* the two nested loops: rows in append order, each with its market_idx
RECURSIVE build_rows(_, _, _, _, _)
build_rows(mkts, total, market_idx, log_id, draws) ==
    IF market_idx >= Len(mkts) THEN << >>
    ELSE LET n == market_logs(Len(mkts), total, market_idx)
             mine == [ i \in 1..n |->
                         [ market_idx |-> market_idx,
                           row |-> make_row(log_id + i, mkts[market_idx + 1],
                                            draws[i]) ] ]
         IN  mine \o build_rows(mkts, total, market_idx + 1, log_id + n,
                                SubSeq(draws, n + 1, Len(draws)))

\* the orders random.shuffle can leave a list of n elements in
Permutations_(n) ==
    { p \in [1..n -> 1..n] : \A i, j \in 1..n : p[i] = p[j] => i = j }

\* fault of shuffle: positions drawn with replacement
shuffle_replace(rows) ==
    { [ i \in 1..Len(rows) |-> rows[p[i]] ] :
        p \in [ 1..Len(rows) -> 1..Len(rows) ] }

shuffle(rows) ==
    { [ i \in 1..Len(rows) |-> rows[p[i]] ] : p \in Permutations_(Len(rows)) }

\* chr(64 + col_index)
chr64(col_index) ==
    << "A", "B", "C", "D", "E", "F", "G", "H", "I", "J", "K" >>[col_index]

flag_color(value) == IF value = "YES" THEN LIGHT_RED ELSE LIGHT_GREEN

(* ------------------- record store over HTTP (main.py) ------------------ *)

\* any(r["marketId"] == market_id for r in records)
has_market(records, market_id) ==
    \E i \in 1..Len(records) : records[i].marketId = market_id

\* POST /records
create_record ==
    \E record \in Records :
        /\ Len(db) < MaxDb
        /\ db' = IF has_market(db, record.marketId) THEN db
                 ELSE Append(db, record)
        /\ UNCHANGED << second, appends, ws_exists, sheet, marks, pc, run, cycle, num_logs, locals,
                        calls, completed, printed, stop_reason >>

\* the list update_record saves: the first record with market_id replaced
updated(records, market_id, record) ==
    LET hits == { i \in 1..Len(records) : records[i].marketId = market_id }
        first == CHOOSE i \in hits : \A j \in hits : i <= j
    IN  IF hits = {} THEN records
        ELSE [ records EXCEPT ![first] = record ]

\* PUT /records/{market_id}
update_record ==
    \E market_id \in MarketIds, record \in Records :
        /\ db' = updated(db, market_id, record)
        /\ UNCHANGED << second, appends, ws_exists, sheet, marks, pc, run, cycle, num_logs, locals,
                        calls, completed, printed, stop_reason >>

\* [r for r in records if r["marketId"] != market_id]
without(records, market_id) ==
    SelectSeq(records, LAMBDA r : r.marketId # market_id)

\* DELETE /records/{market_id}
delete_record ==
    \E market_id \in MarketIds :
        /\ db' = without(db, market_id)
        /\ UNCHANGED << second, appends, ws_exists, sheet, marks, pc, run, cycle, num_logs, locals,
                        calls, completed, printed, stop_reason >>

(* ------------------------- the logger process ------------------------- *)

NoMarks == [ c \in {} |-> "" ]

NoLocals ==
    /\ markets' = << >>
    /\ existing_rows' = 0
    /\ built' = << >>
    /\ rows_to_add' = << >>
    /\ idx' = 0
    /\ col' = COL_T1

Init ==
    /\ db = << >>
    /\ ws_exists \in BOOLEAN
    /\ sheet = << >>
    /\ marks = NoMarks
    /\ pc = "init"
    /\ run = 1
    /\ cycle = 0
    /\ num_logs \in 0..MaxLogs
    /\ markets = << >>
    /\ existing_rows = 0
    /\ built = << >>
    /\ rows_to_add = << >>
    /\ idx = 0
    /\ col = COL_T1
    /\ calls = << >>
    /\ completed = 0
    /\ printed = -1
    /\ stop_reason = ""
    /\ appends = 0
    /\ pc2 = "off"
    /\ cycle2 = 0
    /\ markets2 = << >>
    /\ existing_rows2 = 0
    /\ rows_to_add2 = << >>
    /\ idx2 = 0
    /\ col2 = COL_T1

\* PolymarketLogger(credentials_file=...): outside main's try, so a failure
\* to read the credentials or to authorize ends the process
Construct ==
    /\ pc = "init"
    /\ pc' \in { "open", "crashed" }
    /\ UNCHANGED << second, appends, run, db, ws_exists, sheet, marks, cycle, num_logs, locals,
                    calls, completed, printed, stop_reason >>

\* fault of header_missing: the header is written without looking at row 1
header_missing_unchecked(rows) == Len(rows) >= 0

\* the test _format_header makes before it writes: row_values(1) is empty
\* (no cell of row 1 has a value) or its first cell is not "log_id"
header_missing(rows) ==
    ~ /\ Len(rows) > 0
      /\ \E c \in 1..Len(rows[1]) : rows[1][c] # ""
      /\ rows[1][1] = "log_id"

\* _format_header: the rows of the worksheet after it returns
format_header(rows) ==
    IF ~header_missing(rows) THEN rows
    ELSE IF Len(rows) = 0 THEN << header >>
    ELSE [ rows EXCEPT ![1] = header ]

\* open_spreadsheet returning True, main goes on to its loop
OpenOk ==
    /\ pc = "open"
    /\ ws_exists' = TRUE
    /\ sheet' = format_header(sheet)
    /\ pc' = "loop"
    /\ UNCHANGED << second, appends, run, db, marks, cycle, num_logs, locals, calls, completed,
                    printed, stop_reason >>

\* fault of OpenFail: main goes on to its loop whatever open_spreadsheet
\* returned
OpenFailIgnored ==
    /\ pc = "open"
    /\ \/ UNCHANGED << ws_exists, sheet >>
       \/ ws_exists' = TRUE /\ UNCHANGED sheet
       \/ ws_exists' = TRUE /\ sheet' = format_header(sheet)
    /\ pc' = "loop"
    /\ UNCHANGED << second, appends, run, db, marks, cycle, num_logs, locals,
                    calls, completed, printed, stop_reason >>

\* open_spreadsheet catching an exception and returning False: opening
\* failed, or add_worksheet succeeded and the header update failed, or the
\* header was written and its formatting failed; main returns
OpenFail ==
    /\ pc = "open"
    /\ \/ UNCHANGED << ws_exists, sheet >>
       \/ ws_exists' = TRUE /\ UNCHANGED sheet
       \/ ws_exists' = TRUE /\ sheet' = format_header(sheet)
    /\ pc' = "exited"
    /\ UNCHANGED << second, appends, run, db, marks, cycle, num_logs, locals, calls, completed,
                    printed, stop_reason >>

\* while True: cycle += 1
StartCycle ==
    /\ pc = "loop"
    /\ cycle < MaxCycles
    /\ Len(sheet) + num_logs <= MaxRows
    /\ cycle' = cycle + 1
    /\ calls' = << >>
    /\ pc' = "load"
    /\ UNCHANGED << second, appends, run, db, ws_exists, sheet, marks, num_logs, locals, completed,
                    printed, stop_reason >>

\* fault of load_markets: db.json is not read, the list is the one of a start
\* with an empty db.json
load_markets_unread == << DummyMarket >>

\* fault of load_markets: the substitute for an empty list is a market of
\* another id and without thresholds
load_markets_other == IF db = << >> THEN << Unthresholded >> ELSE db

\* load_markets, with the dummy market when it returns nothing
load_markets == IF db = << >> THEN << DummyMarket >> ELSE db

LoadMarkets ==
    /\ pc = "load"
    /\ markets' = load_markets
    /\ calls' = Append(calls, << "load_markets" >>)
    /\ pc' = "read"
    /\ UNCHANGED << second, appends, run, db, ws_exists, sheet, marks, cycle, num_logs,
                    existing_rows, built, rows_to_add, idx, col, completed,
                    printed, stop_reason >>

\* existing_rows = len(self.sheet.get_all_values())
ReadRows ==
    /\ pc = "read"
    /\ existing_rows' = Len(sheet)
    /\ calls' = Append(calls, << "get_all_values" >>)
    /\ pc' = "build"
    /\ UNCHANGED << second, appends, run, db, ws_exists, sheet, marks, cycle, num_logs, markets,
                    built, rows_to_add, idx, col, completed, printed,
                    stop_reason >>

RowsOf(b) == [ i \in 1..Len(b) |-> b[i].row ]

\* the loops building rows_to_add, then random.shuffle(rows_to_add), with
\* the random prices drawn from price_draws
Build(price_draws) ==
    /\ pc = "build"
    /\ \E draws \in [ 1..num_logs -> price_draws ] :
          built' = build_rows(markets, num_logs, 0,
                              last_log_id(existing_rows), draws)
    /\ rows_to_add' \in shuffle(RowsOf(built'))
    /\ pc' = IF rows_to_add' # << >> THEN "append" ELSE "return"
    /\ UNCHANGED << second, appends, run, db, ws_exists, sheet, marks, cycle, num_logs, markets,
                    existing_rows, idx, col, calls, completed, printed,
                    stop_reason >>

BuildBatch == Build(PriceDraws)

\* fault of AppendRows: one append call per row
AppendRowsEach ==
    /\ pc = "append"
    /\ LET k == Len(sheet) - existing_rows + 1
       IN  /\ sheet' = Append(sheet, rows_to_add[k])
           /\ pc' = IF k < Len(rows_to_add) THEN "append" ELSE "sleep"
    /\ calls' = Append(calls, << "append_rows" >>)
    /\ appends' = appends + 1
    /\ UNCHANGED << second, run, db, ws_exists, marks, cycle, num_logs, locals,
                    completed, printed, stop_reason >>

\* self.sheet.append_rows(rows_to_add)
AppendRows ==
    /\ pc = "append"
    /\ sheet' = sheet \o rows_to_add
    /\ calls' = Append(calls, << "append_rows" >>)
    /\ pc' = "sleep"
    /\ appends' = appends + 1
    /\ UNCHANGED << second, run, db, ws_exists, marks, cycle, num_logs, locals, completed,
                    printed, stop_reason >>

\* time.sleep(1) after the batch, then the annotation loop starts
Sleep ==
    /\ pc = "sleep"
    /\ idx' = 0
    /\ col' = COL_T1
    /\ pc' = "annotate"
    /\ UNCHANGED << second, appends, run, db, ws_exists, sheet, marks, cycle, num_logs, markets,
                    existing_rows, built, rows_to_add, calls, completed,
                    printed, stop_reason >>

\* fault of row_num: start_row = existing_rows
row_num_early(rows, i) == rows + i

\* start_row = existing_rows + 1; row_num = start_row + idx
row_num(rows, i) == rows + 1 + i

\* the cell apply_flag_color formats
cell_of(row_index, col_index) == << chr64(col_index), row_index >>

\* one apply_flag_color call of the annotation loop: row idx, column col
\* (the code passes row[7], row[8], row[9] for columns 8, 9, 10)
ApplyFlagColor ==
    /\ pc = "annotate"
    /\ LET row == rows_to_add[idx + 1]
           cell == cell_of(row_num(existing_rows, idx), col)
       IN  /\ marks' = (cell :> flag_color(row[col])) @@ marks
           /\ calls' = Append(calls, << "format", cell[1], cell[2] >>)
    /\ IF col < COL_T3
         THEN /\ col' = col + 1
              /\ UNCHANGED << idx, pc >>
         ELSE /\ col' = COL_T1
              /\ idx' = idx + 1
              /\ pc' = IF idx + 1 < Len(rows_to_add) THEN "annotate"
                       ELSE "return"
    /\ UNCHANGED << second, appends, run, db, ws_exists, sheet, cycle, num_logs, markets,
                    existing_rows, built, rows_to_add, completed, printed,
                    stop_reason >>

\* simulate_logs returns, main prints "Cycle #n complete"
Return ==
    /\ pc = "return"
    /\ completed' = completed + 1
    /\ NoLocals
    /\ pc' = "wait"
    /\ UNCHANGED << second, appends, run, db, ws_exists, sheet, marks, cycle, num_logs, calls,
                    printed, stop_reason >>

\* fault of Wait: the loop also goes on after the process has stopped
WaitOrResume ==
    /\ pc \in { "wait", "stopped" }
    /\ pc' = "loop"
    /\ UNCHANGED << second, appends, run, db, ws_exists, sheet, marks, cycle, num_logs, locals,
                    calls, completed, printed, stop_reason >>

\* time.sleep(5)
Wait ==
    /\ pc = "wait"
    /\ pc' = "loop"
    /\ UNCHANGED << second, appends, run, db, ws_exists, sheet, marks, cycle, num_logs, locals,
                    calls, completed, printed, stop_reason >>

InTry == { "loop", "load", "read", "build", "append", "sleep", "annotate",
           "return", "wait" }
AtCall == { "load", "read", "append", "annotate" }

\* except KeyboardInterrupt: "Total cycles completed: {cycle}"
Interrupt ==
    /\ pc \in InTry
    /\ printed' = cycle
    /\ stop_reason' = "interrupt"
    /\ NoLocals
    /\ pc' = "stopped"
    /\ UNCHANGED << second, appends, run, db, ws_exists, sheet, marks, cycle, num_logs, calls,
                    completed >>

\* fault of Fail: the rows of the failed cycle are deleted again
FailRollback ==
    /\ pc \in AtCall
    /\ sheet' = IF pc = "annotate" THEN SubSeq(sheet, 1, existing_rows)
                ELSE sheet
    /\ printed' = cycle
    /\ stop_reason' = "error"
    /\ NoLocals
    /\ pc' = "stopped"
    /\ UNCHANGED << second, appends, run, db, ws_exists, marks, cycle,
                    num_logs, calls, completed >>

\* except Exception: "Cycles completed before error: {cycle}"; raised by
\* the call the process is at, which has no effect
Fail ==
    /\ pc \in AtCall
    /\ printed' = cycle
    /\ stop_reason' = "error"
    /\ NoLocals
    /\ pc' = "stopped"
    /\ UNCHANGED << second, appends, run, db, ws_exists, sheet, marks, cycle, num_logs, calls,
                    completed >>

\* the program is started again: a new process, the same spreadsheet
Restart ==
    /\ pc \in { "stopped", "exited", "crashed" }
    /\ run < MaxRuns
    /\ run' = run + 1
    /\ pc' = "init"
    /\ cycle' = 0
    /\ calls' = << >>
    /\ completed' = 0
    /\ printed' = -1
    /\ stop_reason' = ""
    /\ UNCHANGED << second, appends, db, ws_exists, sheet, marks, num_logs, locals >>

Next ==
    \/ create_record
    \/ update_record
    \/ delete_record
    \/ Construct
    \/ OpenOk
    \/ OpenFail
    \/ StartCycle
    \/ LoadMarkets
    \/ ReadRows
    \/ BuildBatch
    \/ AppendRows
    \/ Sleep
    \/ ApplyFlagColor
    \/ Return
    \/ Wait
    \/ Interrupt
    \/ Fail
    \/ Restart

Spec == Init /\ [][Next]_vars

(* ------------------ batches built on their own ------------------------ *)

\* db.json as the HTTP interface or a hand edit can leave it
ConfigRecords == Records \cup { Unthresholded }
MarketLists == UNION { [ 1..n -> ConfigRecords ] : n \in 1..MaxMarkets }

\* n rows of earlier cycles, log_ids 1..n
EarlierRows(n) ==
    [ i \in 1..n |-> make_row(i, DummyMarket, << 504, -28 >>) ]

\* simulate_logs after load_markets and get_all_values, for every market
\* list, num_logs and row count within the bounds
InitBuild ==
    /\ db \in MarketLists \cup { << >> }
    /\ markets = load_markets
    /\ num_logs \in 0..MaxTotal
    /\ existing_rows \in 0..MaxExisting
    /\ sheet = IF existing_rows = 0 THEN << >>
               ELSE << header >> \o EarlierRows(existing_rows - 1)
    /\ ws_exists = TRUE
    /\ marks = NoMarks
    /\ pc = "build"
    /\ run = 1
    /\ cycle = 1
    /\ built = << >>
    /\ rows_to_add = << >>
    /\ idx = 0
    /\ col = COL_T1
    /\ calls = << << "load_markets" >>, << "get_all_values" >> >>
    /\ completed = 0
    /\ printed = -1
    /\ stop_reason = ""
    /\ appends = 0
    /\ pc2 = "off"
    /\ cycle2 = 0
    /\ markets2 = << >>
    /\ existing_rows2 = 0
    /\ rows_to_add2 = << >>
    /\ idx2 = 0
    /\ col2 = COL_T1

BuildWide == Build(WidePriceDraws)

NextBuild == BuildWide

SpecBuild == InitBuild /\ [][NextBuild]_vars

(* ---------------------- one row over a grid of draws ------------------ *)

\* simulate_logs(1) on a header-only sheet, db.json holding one market or none
InitPrices ==
    /\ db \in { << r >> : r \in ConfigRecords } \cup { << >> }
    /\ markets = load_markets
    /\ num_logs = 1
    /\ existing_rows = 1
    /\ sheet = << header >>
    /\ ws_exists = TRUE
    /\ marks = NoMarks
    /\ pc = "build"
    /\ run = 1
    /\ cycle = 1
    /\ built = << >>
    /\ rows_to_add = << >>
    /\ idx = 0
    /\ col = COL_T1
    /\ calls = << << "load_markets" >>, << "get_all_values" >> >>
    /\ completed = 0
    /\ printed = -1
    /\ stop_reason = ""
    /\ appends = 0
    /\ pc2 = "off"
    /\ cycle2 = 0
    /\ markets2 = << >>
    /\ existing_rows2 = 0
    /\ rows_to_add2 = << >>
    /\ idx2 = 0
    /\ col2 = COL_T1

BuildGrid == Build(GridDraws)

NextPrices == BuildGrid

SpecPrices == InitPrices /\ [][NextPrices]_vars

(* ------------------ two processes on one spreadsheet ------------------ *)

\* the variables of the first process
first == << pc, run, cycle, markets, existing_rows, built, rows_to_add, idx,
            col, calls, completed, printed, stop_reason >>

\* the first process has opened the spreadsheet and is in its loop; a second
\* one is not started yet
InitTwo ==
    /\ db = << >>
    /\ ws_exists = TRUE
    /\ sheet = << header >>
    /\ marks = NoMarks
    /\ pc = "loop"
    /\ run = 1
    /\ cycle = 0
    /\ num_logs \in 1..MaxLogs
    /\ markets = << >>
    /\ existing_rows = 0
    /\ built = << >>
    /\ rows_to_add = << >>
    /\ idx = 0
    /\ col = COL_T1
    /\ calls = << >>
    /\ completed = 0
    /\ printed = -1
    /\ stop_reason = ""
    /\ appends = 0
    /\ pc2 = "off"
    /\ cycle2 = 0
    /\ markets2 = << >>
    /\ existing_rows2 = 0
    /\ rows_to_add2 = << >>
    /\ idx2 = 0
    /\ col2 = COL_T1

\* the program is started a second time while the first process runs:
\* PolymarketLogger(), open_spreadsheet(), cycle = 0
Start2 ==
    /\ pc2 = "off"
    /\ ws_exists
    /\ sheet' = format_header(sheet)
    /\ pc2' = "loop"
    /\ UNCHANGED << first, db, ws_exists, marks, num_logs, appends, cycle2,
                    markets2, existing_rows2, rows_to_add2, idx2, col2 >>

StartCycle2 ==
    /\ pc2 = "loop"
    /\ cycle2 < MaxCycles
    /\ Len(sheet) + num_logs <= MaxRows
    /\ cycle2' = cycle2 + 1
    /\ pc2' = "load"
    /\ UNCHANGED << first, db, ws_exists, sheet, marks, num_logs, appends,
                    markets2, existing_rows2, rows_to_add2, idx2, col2 >>

LoadMarkets2 ==
    /\ pc2 = "load"
    /\ markets2' = load_markets
    /\ pc2' = "read"
    /\ UNCHANGED << first, db, ws_exists, sheet, marks, num_logs, appends,
                    cycle2, existing_rows2, rows_to_add2, idx2, col2 >>

ReadRows2 ==
    /\ pc2 = "read"
    /\ existing_rows2' = Len(sheet)
    /\ pc2' = "build"
    /\ UNCHANGED << first, db, ws_exists, sheet, marks, num_logs, appends,
                    cycle2, markets2, rows_to_add2, idx2, col2 >>

BuildBatch2 ==
    /\ pc2 = "build"
    /\ \E draws \in [ 1..num_logs -> PriceDraws ] :
          rows_to_add2' \in
              shuffle(RowsOf(build_rows(markets2, num_logs, 0,
                                        last_log_id(existing_rows2), draws)))
    /\ pc2' = IF rows_to_add2' # << >> THEN "append" ELSE "return"
    /\ UNCHANGED << first, db, ws_exists, sheet, marks, num_logs, appends,
                    cycle2, markets2, existing_rows2, idx2, col2 >>

\* fault of AppendRows2: the rows are numbered again after the rows the
\* sheet holds when they are appended
AppendRows2Numbered ==
    /\ pc2 = "append"
    /\ sheet' = sheet \o [ i \in 1..Len(rows_to_add2) |->
                             [ rows_to_add2[i] EXCEPT ![1] = Len(sheet) - 1 + i ] ]
    /\ appends' = appends + 1
    /\ pc2' = "sleep"
    /\ UNCHANGED << first, db, ws_exists, marks, num_logs, cycle2, markets2,
                    existing_rows2, rows_to_add2, idx2, col2 >>

AppendRows2 ==
    /\ pc2 = "append"
    /\ sheet' = sheet \o rows_to_add2
    /\ appends' = appends + 1
    /\ pc2' = "sleep"
    /\ UNCHANGED << first, db, ws_exists, marks, num_logs, cycle2, markets2,
                    existing_rows2, rows_to_add2, idx2, col2 >>

Sleep2 ==
    /\ pc2 = "sleep"
    /\ idx2' = 0
    /\ col2' = COL_T1
    /\ pc2' = "annotate"
    /\ UNCHANGED << first, db, ws_exists, sheet, marks, num_logs, appends,
                    cycle2, markets2, existing_rows2, rows_to_add2 >>

ApplyFlagColor2 ==
    /\ pc2 = "annotate"
    /\ LET row == rows_to_add2[idx2 + 1]
           cell == cell_of(row_num(existing_rows2, idx2), col2)
       IN  marks' = (cell :> flag_color(row[col2])) @@ marks
    /\ IF col2 < COL_T3
         THEN /\ col2' = col2 + 1
              /\ UNCHANGED << idx2, pc2 >>
         ELSE /\ col2' = COL_T1
              /\ idx2' = idx2 + 1
              /\ pc2' = IF idx2 + 1 < Len(rows_to_add2) THEN "annotate"
                        ELSE "return"
    /\ UNCHANGED << first, db, ws_exists, sheet, num_logs, appends, cycle2,
                    markets2, existing_rows2, rows_to_add2 >>

Return2 ==
    /\ pc2 = "return"
    /\ markets2' = << >>
    /\ existing_rows2' = 0
    /\ rows_to_add2' = << >>
    /\ idx2' = 0
    /\ col2' = COL_T1
    /\ pc2' = "wait"
    /\ UNCHANGED << first, db, ws_exists, sheet, marks, num_logs, appends,
                    cycle2 >>

Wait2 ==
    /\ pc2 = "wait"
    /\ pc2' = "loop"
    /\ UNCHANGED << first, db, ws_exists, sheet, marks, num_logs, appends,
                    cycle2, markets2, existing_rows2, rows_to_add2, idx2,
                    col2 >>

NextTwo ==
    \/ StartCycle
    \/ LoadMarkets
    \/ ReadRows
    \/ BuildBatch
    \/ AppendRows
    \/ Sleep
    \/ ApplyFlagColor
    \/ Return
    \/ Wait
    \/ Start2
    \/ StartCycle2
    \/ LoadMarkets2
    \/ ReadRows2
    \/ BuildBatch2
    \/ AppendRows2
    \/ Sleep2
    \/ ApplyFlagColor2
    \/ Return2
    \/ Wait2

SpecTwo == InitTwo /\ [][NextTwo]_vars

(* ------------------ worksheets the program is started on -------------- *)

BlankRow == [ c \in 1..Len(header) |-> "" ]

\* first rows: the header, the header with one cell changed, an empty row
FirstRows ==
    { header } \cup { [ header EXCEPT ![c] = "x" ] : c \in 1..Len(header) }

\* no row at all, or a first row with up to MaxExisting rows below it (an
\* empty first row only with rows below it)
HeaderSheets ==
    { << >> }
    \cup { << f >> \o EarlierRows(n) : f \in FirstRows, n \in 0..MaxExisting }
    \cup { << BlankRow >> \o EarlierRows(n) : n \in 1..MaxExisting }

InitHeader ==
    /\ sheet \in HeaderSheets
    /\ ws_exists \in { sheet # << >>, TRUE }
    /\ db = << >>
    /\ marks = NoMarks
    /\ pc = "init"
    /\ run = 1
    /\ cycle = 0
    /\ num_logs = 1
    /\ markets = << >>
    /\ existing_rows = 0
    /\ built = << >>
    /\ rows_to_add = << >>
    /\ idx = 0
    /\ col = COL_T1
    /\ calls = << >>
    /\ completed = 0
    /\ printed = -1
    /\ stop_reason = ""
    /\ appends = 0
    /\ pc2 = "off"
    /\ cycle2 = 0
    /\ markets2 = << >>
    /\ existing_rows2 = 0
    /\ rows_to_add2 = << >>
    /\ idx2 = 0
    /\ col2 = COL_T1

NextHeader ==
    \/ Construct
    \/ OpenOk
    \/ OpenFail
    \/ Interrupt
    \/ Restart

SpecHeader == InitHeader /\ [][NextHeader]_vars

TypeOK ==
    /\ pc \in InTry \cup { "init", "open", "stopped", "exited", "crashed" }
    /\ Len(sheet) <= MaxRows
    /\ cycle \in 0..MaxCycles

(* ------------------------------ claims -------------------------------- *)

Built == pc \in { "append", "return" }
LogIds(rows) == { rows[i][1] : i \in 1..Len(rows) }
\* number of rows of the batch built for the market at position k (0-based)
CountOf(k) == Cardinality({ i \in 1..Len(built) : built[i].market_idx = k })
Positions == 0..(Len(markets) - 1)

\* C1: every row a step appends to the sheet has a log_id greater than the
\* log_id of every data row the sheet held before the step, in every cycle
\* of every process, restarted or not
Thm_C1 ==
    [][ \A i \in (Len(sheet) + 1)..Len(sheet'), j \in 2..Len(sheet) :
            sheet'[i][1] > sheet[j][1] ]_vars

\* a second process has appended a batch to rows left unannotated by a cycle
\* that failed after its append
Wit_C1 ==
    /\ run = 2
    /\ pc = "sleep"
    /\ existing_rows > 1
    /\ \E r \in 2..existing_rows : << "J", r >> \notin DOMAIN marks

\* C2: the smallest log_id of a batch is 1 when the row count read is at
\* most 1 and equals the row count otherwise (last id 0, or row count - 1)
Thm_C2 ==
    (Built /\ rows_to_add # << >>) =>
        /\ \E i \in 1..Len(rows_to_add) :
              rows_to_add[i][1] = IF existing_rows <= 1 THEN 1
                                  ELSE existing_rows
        /\ \A i \in 1..Len(rows_to_add) :
              rows_to_add[i][1] >= IF existing_rows <= 1 THEN 1
                                   ELSE existing_rows

Wit_C2 ==
    /\ Built
    /\ existing_rows = 2
    /\ 2 \in LogIds(rows_to_add)
    /\ Len(rows_to_add) > 1

\* C3: for a non-empty configuration of n markets the batch holds, for the
\* market at position k, floor(num_logs / n) rows plus one iff
\* k < num_logs mod n, each carrying that market's id, and num_logs rows in all
Thm_C3 ==
    (Built /\ db # << >>) =>
        /\ markets = db
        /\ \A k \in Positions :
              CountOf(k) = (num_logs \div Len(db))
                           + (IF k < num_logs % Len(db) THEN 1 ELSE 0)
        /\ \A i \in 1..Len(built) :
              /\ built[i].market_idx \in Positions
              /\ built[i].row[2] = db[built[i].market_idx + 1].marketId
        /\ Len(built) = num_logs
        /\ Len(rows_to_add) = num_logs

\* three markets share four rows: two for the first, one for the others
Wit_C3 ==
    /\ Built
    /\ Len(db) = 3
    /\ num_logs = 4
    /\ CountOf(0) = 2
    /\ CountOf(2) = 1

\* C4 as stated, for a configuration of at least one market and at least one
\* row asked for: every market of the configuration has a row in the batch
\* and the row counts of two markets differ by at most one
Orig_C4 ==
    (Built /\ db # << >> /\ num_logs >= 1) =>
        /\ \A k \in Positions : CountOf(k) >= 1
        /\ \A k1, k2 \in Positions : CountOf(k1) - CountOf(k2) <= 1

\* C4, amended: the row counts of two markets differ by at most one, and
\* every market has a row in the batch when num_logs is at least the number
\* of markets
Thm_C4 ==
    Built =>
        /\ \A k1, k2 \in Positions : CountOf(k1) - CountOf(k2) <= 1
        /\ num_logs >= Len(markets) => \A k \in Positions : CountOf(k) >= 1

Wit_C4 ==
    /\ Built
    /\ Len(markets) = 3
    /\ num_logs = 3
    /\ \A k \in Positions : CountOf(k) = 1

\* C5: the log_ids of a batch are last id + 1 .. last id + num_logs, each
\* once, handed out in the order the rows were built: market by market in
\* configuration order, sample by sample, so every market holds a contiguous
\* block and an earlier market's ids are all smaller than a later market's
Thm_C5 ==
    Built =>
        LET start == IF existing_rows > 1 THEN existing_rows - 1 ELSE 0
        IN  /\ LogIds(rows_to_add) = (start + 1)..(start + num_logs)
            /\ Len(rows_to_add) = num_logs
            /\ \A i \in 1..Len(built) : built[i].row[1] = start + i
            /\ \A i, j \in 1..Len(built) :
                  i < j => built[i].market_idx <= built[j].market_idx

\* a shuffled batch of two markets with two rows each
Wit_C5 ==
    /\ Built
    /\ Len(markets) = 2
    /\ num_logs = 4
    /\ rows_to_add # RowsOf(built)
    /\ existing_rows = 2

Range(q) == { q[i] : i \in 1..Len(q) }
BagOf(q) == [ x \in Range(q) |-> Cardinality({ i \in 1..Len(q) : q[i] = x }) ]
Appended == pc \in { "sleep", "annotate" } \/ (pc = "return" /\ built # << >>)
NewRows == SubSeq(sheet, existing_rows + 1, Len(sheet))

\* C6: the shuffle changes the order only: the rows of the shuffled batch,
\* and the rows the cycle has written to the sheet, are as a multiset the
\* rows that were built, every field included
Thm_C6 ==
    /\ Built => BagOf(rows_to_add) = BagOf(RowsOf(built))
    /\ Appended => BagOf(NewRows) = BagOf(RowsOf(built))

\* two rows were written in the order opposite to the one they were built in
Wit_C6 ==
    /\ pc = "sleep"
    /\ Len(built) = 2
    /\ NewRows = << built[2].row, built[1].row >>

AppendCalls == { i \in 1..Len(calls) : calls[i][1] = "append_rows" }
FormatCalls == { i \in 1..Len(calls) : calls[i][1] = "format" }

\* C7: a cycle writes its batch by one append call, which all of its
\* cell-background calls follow, and a background call names a row the
\* append has already written
Thm_C7 ==
    /\ Cardinality(AppendCalls) <= 1
    /\ \A f \in FormatCalls : \E a \in AppendCalls : a < f
    /\ \A f \in FormatCalls : calls[f][3] <= Len(sheet)
    /\ Appended =>
          /\ Cardinality(AppendCalls) = 1
          /\ Len(sheet) = existing_rows + Len(rows_to_add)

\* a batch of two rows has been appended and all six cells formatted
Wit_C7 ==
    /\ pc = "return"
    /\ Len(rows_to_add) = 2
    /\ Cardinality(FormatCalls) = 6

FlagColumns == { << "H", 8 >>, << "I", 9 >>, << "J", 10 >> }
MarkerFor(value) == IF value = "YES" THEN "light_red" ELSE "light_green"

\* C8: when the annotation of a cycle is complete, each cell of columns
\* 8, 9, 10 (H, I, J, the three below_threshold columns) of each row the
\* cycle appended carries the light-red marker iff the cell holds YES and
\* the light-green marker otherwise, the cycle has set a marker on no other
\* row, and no marker of the sheet ever disagrees with its cell
Thm_C8 ==
    /\ << header[8], header[9], header[10] >>
         = << "below_threshold1", "below_threshold2", "below_threshold3" >>
    /\ (pc = "return" /\ built # << >>) =>
          \A r \in (existing_rows + 1)..Len(sheet), c \in FlagColumns :
              /\ << c[1], r >> \in DOMAIN marks
              /\ marks[<< c[1], r >>] = MarkerFor(sheet[r][c[2]])
    /\ \A f \in FormatCalls :
          /\ pc # "stopped" => calls[f][3] \in (existing_rows + 1)..Len(sheet)
          /\ calls[f][2] \in { "H", "I", "J" }
    /\ \A cell \in DOMAIN marks :
          /\ cell[2] \in 2..Len(sheet)
          /\ \E c \in FlagColumns :
                /\ c[1] = cell[1]
                /\ marks[cell] = MarkerFor(sheet[cell[2]][c[2]])

\* a cycle is complete whose two rows were written in the order opposite to
\* the one they were built in and differ in all three flags
Wit_C8 ==
    /\ pc = "return"
    /\ Len(built) = 2
    /\ rows_to_add = << built[2].row, built[1].row >>
    /\ \A c \in 8..10 : rows_to_add[1][c] # rows_to_add[2][c]

Running == pc \in InTry
Stopped == pc = "stopped"

\* C9: the scheduler leaves RUNNING only for STOPPED, on an interrupt or on
\* an exception raised by a call of the cycle; a stopped process stays
\* stopped and makes no further call: the sheet, the markers, the calls made
\* and the cycle counter stay as they are until another process is started,
\* which begins at cycle 0 and resumes nothing
Thm_C9 ==
    [][ /\ (Running /\ ~Running') =>
              /\ Stopped'
              /\ \/ stop_reason' = "interrupt"
                 \/ stop_reason' = "error" /\ pc \in AtCall
        /\ (Stopped /\ run' = run) =>
              /\ Stopped'
              /\ UNCHANGED << sheet, marks, calls, cycle, completed, printed,
                              stop_reason, locals >>
        /\ (Stopped /\ run' # run) =>
              /\ pc' = "init"
              /\ cycle' = 0
              /\ calls' = << >>
              /\ UNCHANGED << sheet, marks, locals >>
        /\ (~Stopped /\ Stopped') => Running ]_vars

\* a process stopped by an exception after its append
Wit_C9 ==
    /\ Stopped
    /\ stop_reason = "error"
    /\ Len(sheet) > 1
    /\ AppendCalls # {}
    /\ run = 1

\* C10: the cycle number a stopping process prints is the number of cycles
\* whose simulate_logs call returned
Orig_C10 == Stopped => printed = completed

\* C11: a cycle cut short after its append leaves the sheet as the append
\* left it: the step that stops the process changes neither a row nor a
\* marker, the markers set so far are those of the cells they are on, and no
\* later step removes or rewrites a row of the sheet
Thm_C11 ==
    [][ /\ (pc \in { "sleep", "annotate" } /\ Stopped') =>
              /\ sheet' = sheet
              /\ marks' = marks
              /\ Len(sheet) = existing_rows + Len(rows_to_add)
              /\ \A i \in 1..Len(rows_to_add) :
                    sheet'[existing_rows + i] = rows_to_add[i]
        /\ Len(sheet') >= Len(sheet)
        /\ \A r \in 1..Len(sheet) : sheet'[r] = sheet[r] ]_vars

\* a process stopped by an exception with two rows appended and only the
\* first cell of the first of them formatted
Wit_C11 ==
    /\ Stopped
    /\ stop_reason = "error"
    /\ Len(sheet) = 3
    /\ AppendCalls # {}
    /\ Cardinality(FormatCalls) = 1
    /\ DOMAIN marks = { << "H", 2 >> }

Startup == pc \in { "init", "open" }
FailedStart == pc \in { "crashed", "exited" }
DataRows(rows) == SubSeq(rows, 2, Len(rows))

\* C12: a process whose construction or open_spreadsheet fails ends without
\* entering its loop: up to and after the failure its cycle counter is 0, it
\* has made no call of a cycle, no row is appended and no marker set, and it
\* stays ended; the loop is entered only from an open_spreadsheet that left
\* a worksheet with a header row
Thm_C12 ==
    [][ /\ Startup =>
              /\ pc' \in { "init", "open", "crashed", "exited", "loop" }
              /\ cycle = 0 /\ cycle' = 0
              /\ calls' = << >>
              /\ appends' = appends
              /\ marks' = marks
              /\ DataRows(sheet') = DataRows(sheet)
        /\ FailedStart' => (Startup \/ FailedStart)
        /\ (FailedStart /\ run' = run) =>
              /\ pc' = pc
              /\ cycle' = 0
              /\ UNCHANGED << sheet, marks, appends, calls, completed >>
        /\ (Running' /\ ~Running) =>
              /\ pc = "open"
              /\ ws_exists'
              /\ Len(sheet') >= 1
              /\ sheet'[1][1] = "log_id" ]_vars

\* the second start of the program failed to open the spreadsheet, which
\* holds the rows of the first
Wit_C12 ==
    /\ pc = "exited"
    /\ run = 2
    /\ cycle = 0
    /\ Len(sheet) > 1

\* C13: when open_spreadsheet has returned True, whatever the worksheet
\* held before, its first row is the 11-column header
Orig_C13 == pc = "loop" => (Len(sheet) >= 1 /\ sheet[1] = header)

\* C14: on a worksheet whose first row is the header, _format_header writes
\* nothing and open_spreadsheet leaves every row as it is, however often the
\* program is started
Thm_C14 ==
    [][ (pc = "open" /\ Len(sheet) >= 1 /\ sheet[1] = header) =>
            /\ ~header_missing(sheet)
            /\ sheet' = sheet ]_vars

\* the program was started twice on a worksheet with the header and two rows
Wit_C14 ==
    /\ run = 2
    /\ pc = "loop"
    /\ Len(sheet) = 3
    /\ sheet[1] = header
    /\ sheet[3][1] = 2

\* C15: with an empty db.json the batch is built all the same: it holds
\* num_logs rows, every one of them of the dummy market MKT001, with its
\* label and flags against its thresholds 1.0 / 0.95 / 0.90
Thm_C15 ==
    (db = << >> /\ Built) =>
        /\ markets = << DummyMarket >>
        /\ Len(rows_to_add) = num_logs
        /\ \A i \in 1..Len(rows_to_add) :
              LET row == rows_to_add[i]
              IN  /\ row[2] = "MKT001"
                  /\ row[3] = DummyMarket.marketLabel
                  /\ row[8] = YesNo(row[6] < 100)
                  /\ row[9] = YesNo(row[6] < 95)
                  /\ row[10] = YesNo(row[6] < 90)

\* a batch of three rows was built from an empty db.json
Wit_C15 ==
    /\ db = << >>
    /\ pc = "append"
    /\ num_logs = 3
    /\ Len(rows_to_add) = 3
    /\ rows_to_add[3][2] = "MKT001"

\* C16: no two records of db.json have the same marketId
Orig_C16 ==
    \A i, j \in 1..Len(db) : db[i].marketId = db[j].marketId => i = j

\* the threshold a market's flag n is taken against: its own, or the default
ThresholdOf(market, n) ==
    LET name == << "threshold1", "threshold2", "threshold3" >>[n]
    IN  IF name \in DOMAIN market THEN market[name] ELSE << 100, 95, 90 >>[n]

\* C17: in every row built, yes_price is within 0.05..0.95 and no_price
\* within 0.01..0.99, sum_price is their sum, difference_from_1 is
\* 1 - sum_price, and flag N is YES exactly when sum_price is strictly
\* below the market's threshold N, or the default when it has none
Thm_C17 ==
    Built =>
        \A i \in 1..Len(built) :
            LET row == built[i].row
                market == markets[built[i].market_idx + 1]
            IN  /\ row[4] \in 5..95
                /\ row[5] \in 1..99
                /\ row[6] = row[4] + row[5]
                /\ row[7] = 1000 - 10 * row[6]
                /\ \A n \in 1..3 :
                      row[7 + n] = "YES" <=> row[6] < ThresholdOf(market, n)
                /\ \A n \in 1..3 : row[7 + n] \in { "YES", "NO" }

\* a row of MKT002 was built whose sum_price equals its threshold2, 1.0:
\* flag 2 is NO; flag 1 (0.97) is NO and flag 3 (0.98) is NO too
Wit_C17 ==
    /\ Built
    /\ Len(built) = 1
    /\ markets[1].marketId = "MKT002"
    /\ built[1].row[6] = 100
    /\ built[1].row[9] = "NO"

\* what a cycle must work with when db.json holds the records d
Loaded(d) == IF d = << >> THEN << DummyMarket >> ELSE d

\* C18: each cycle loads the markets from db.json as it is at that moment,
\* whatever an earlier cycle loaded; requests to the HTTP interface made
\* after the load do not change the list the cycle works with, and the batch
\* is built from that list: ids, labels, flags against its thresholds, and
\* the number of rows of each market
Thm_C18 ==
    [][ /\ (pc = "load" /\ pc' = "read") => markets' = Loaded(db)
        /\ (pc \in { "read", "build", "append" } /\ pc' \in InTry) =>
               markets' = markets
        /\ (pc = "build" /\ pc' \in { "append", "return" }) =>
               /\ \A i \in 1..Len(built') :
                     LET row == built'[i].row
                         market == markets[built'[i].market_idx + 1]
                     IN  /\ row[2] = market.marketId
                         /\ row[3] = market.marketLabel
                         /\ \A n \in 1..3 :
                               row[7 + n] = "YES" <=>
                                   row[6] < ThresholdOf(market, n)
               /\ \A k \in Positions :
                     Cardinality({ i \in 1..Len(built') :
                                      built'[i].market_idx = k })
                         = num_logs \div Len(markets)
                           + (IF k < num_logs % Len(markets) THEN 1 ELSE 0)
        /\ (pc = "append" /\ pc' = "sleep") =>
               BagOf(SubSeq(sheet', Len(sheet) + 1, Len(sheet')))
                   = BagOf(RowsOf(built))
      ]_vars

\* the first cycle wrote a row of MKT001; MKT001 was then replaced by MKT002
\* through the HTTP interface, and the second cycle of the same process
\* wrote a row of MKT002
Wit_C18 ==
    /\ run = 1
    /\ cycle = 2
    /\ pc = "sleep"
    /\ Len(sheet) = 3
    /\ sheet[2][2] = "MKT001"
    /\ sheet[3][2] = "MKT002"
    /\ sheet[3][3] = "eth"
    /\ Len(db) = 1
    /\ markets = db

\* C19: with this one process at a time writing to the sheet, whatever
\* cycles completed, were interrupted or failed and however often the program
\* was started again, the data rows carry the log_ids 1 .. row count - 1,
\* each of them once, and the sheet holds the header and num_logs rows (60
\* in main) for every append_rows call that went through
Thm_C19 ==
    Len(sheet) >= 1 =>
        /\ sheet[1] = header
        /\ LogIds(DataRows(sheet)) = 1..(Len(sheet) - 1)
        /\ \A r, q \in 2..Len(sheet) : sheet[r][1] = sheet[q][1] => r = q
        /\ Len(sheet) = 1 + num_logs * appends

\* the second process has appended a batch after the first had failed with
\* its batch appended and not yet annotated
Wit_C19 ==
    /\ run = 2
    /\ cycle = 1
    /\ appends = 2
    /\ pc \in { "sleep", "annotate", "return" }
    /\ Len(sheet) = 3
    /\ << "H", 2 >> \notin DOMAIN marks
    /\ { sheet[2][1], sheet[3][1] } = { 1, 2 }

\* two data rows of the sheet carry the same log_id
Duplicates(rows) ==
    \E r, q \in 2..Len(rows) : r # q /\ rows[r][1] = rows[q][1]

\* a process is past its append_rows call, its locals still those of the cycle
Past(p) == p \in { "sleep", "annotate", "return" }

\* C20: nothing keeps a second process from reading the row count between
\* the read and the append of the first; when both have appended the batch
\* they built from the same row count, every log_id of the batch is on two
\* rows of the sheet; as long as only the first process has run cycles, no
\* log_id is on two rows
Thm_C20 ==
    /\ (Past(pc) /\ Past(pc2) /\ existing_rows = existing_rows2) =>
           /\ Duplicates(sheet)
           /\ LogIds(rows_to_add) = LogIds(rows_to_add2)
           /\ \A id \in LogIds(rows_to_add) :
                 Cardinality({ r \in 2..Len(sheet) : sheet[r][1] = id }) >= 2
    /\ cycle2 = 0 => ~Duplicates(sheet)

\* both processes read a row count of 1 and both appended a row with log_id 1
Wit_C20 ==
    /\ pc = "sleep"
    /\ pc2 = "sleep"
    /\ existing_rows = 1
    /\ existing_rows2 = 1
    /\ Len(sheet) = 3
    /\ sheet[2][1] = 1
    /\ sheet[3][1] = 1

=============================================================================
